---- MODULE Spec2Model ----
(***************************************************************************)
(* Model of the financial-forecaster Streamlit application:                *)
(*   utils/excel_parser.py        detect_date_column, detect_numeric_columns *)
(*   forecasting/prophet_model.py prepare_data, train_prophet_model        *)
(*   app.py                       the script run on every user interaction *)
(*                                                                         *)
(* A DataFrame is a record [names, cols]: the ordered column labels and,   *)
(* per label, the sequence of cells.  A cell is what the spreadsheet       *)
(* reader hands over: a datetime, a number, a text (which may read as a    *)
(* date, as a number, or as neither) or a missing value.                   *)
(***************************************************************************)
EXTENDS Integers, Sequences, FiniteSets, TLC

\* ------------------------------------------------------------------ bounds
\* Rows of the tables handed to prepare_data.
MaxRows == 2
\* Rows of the tables handed to the detectors (5 rows make "exactly 80%").
DetectRows == 5
\* The largest timestamp a generated datetime cell carries.
MaxStamp == 2

\* ------------------------------------------------------- program constants
\* detect_date_column's default threshold, in percent (0.8).
DefaultThreshold == 80
\* make_future_dataframe(periods=52, freq='W').
ForecastPeriods == 52
\* Prophet.fit refuses a history with fewer than 2 usable rows.
MinFitRows == 2
\* pandas views NaT as the smallest int64; modelled as an integer below
\* every timestamp.
iNaT == -1

\* ------------------------------------------------------------------- cells
Cell(k, v) == [k |-> k, v |-> v]
DateCell(t) == Cell("date", t)          \* a datetime cell
DateText(t) == Cell("datetext", t)      \* a text that reads as a date
NumCell(v) == Cell("num", v)            \* an int or float cell
NumText(v) == Cell("numtext", v)        \* a text that reads as a number
JunkText == Cell("text", 0)             \* a text that reads as neither
Missing == Cell("missing", 0)           \* an empty cell (NaN / NaT / None)

\* Python's None for a column label; NoValue / Some(x) for any other optional.
NoCol == "<None>"
NoValue == << >>
Some(x) == << x >>

\* ------------------------------------------------------------- DataFrames
Columns(df) == {df.names[i] : i \in 1 .. Len(df.names)}

NRows(df) == IF df.names = << >> THEN 0 ELSE Len(df.cols[df.names[1]])

\* The dtype pandas gives a column read from a sheet: float64 when every
\* cell is a number or empty, datetime64 when every cell is a datetime or
\* empty, object otherwise.
Dtype(cells) ==
    IF cells = << >> THEN "object"
    ELSE IF \A i \in 1 .. Len(cells) : cells[i].k \in {"num", "missing"}
         THEN "float64"
    ELSE IF \A i \in 1 .. Len(cells) : cells[i].k \in {"date", "missing"}
         THEN "datetime64"
    ELSE "object"

is_numeric_dtype(cells) == Dtype(cells) = "float64"

is_object_dtype(cells) == Dtype(cells) = "object"

is_datetime64_any_dtype(cells) == Dtype(cells) = "datetime64"

\* pd.to_datetime(..., errors='coerce') on one cell: the timestamp, or NaT.
\* Datetimes and date texts parse; numbers are read as epoch offsets.
to_datetime(cell) ==
    IF cell.k \in {"date", "datetext", "num"} THEN Some(cell.v) ELSE NoValue

\* pd.to_numeric(..., errors='coerce') on one cell of a column of the given
\* dtype: the number, or NaN.  A datetime64 column is viewed as int64, so a
\* datetime becomes its epoch value and NaT becomes iNaT (not NaN).
to_numeric_coerce(cell, dtype) ==
    IF dtype = "datetime64"
    THEN (IF cell.k = "date" THEN Some(cell.v) ELSE Some(iNaT))
    ELSE IF cell.k \in {"num", "numtext"} THEN Some(cell.v) ELSE NoValue

\* pd.to_numeric(column) with the default errors='raise': raises on an
\* object column holding a text that is no number, or a datetime object.
to_numeric_raises(cells) ==
    /\ Dtype(cells) = "object"
    /\ \E i \in 1 .. Len(cells) : cells[i].k \in {"text", "datetext", "date"}

\* ------------------------------------------------- utils/excel_parser.py
\* date_series.notna().sum()
ValidCount(cells) ==
    Cardinality({i \in 1 .. Len(cells) : to_datetime(cells[i]) # NoValue})

\* A faulty variant of RatioAtLeast: the comparison made strict.
RatioAbove(valid, n, threshold) == n > 0 /\ valid * 100 > threshold * n

\* valid_ratio >= threshold, the ratio being valid / n and the threshold a
\* percentage.  The mean of an empty column is NaN, which compares False.
RatioAtLeast(valid, n, threshold) == n > 0 /\ valid * 100 >= threshold * n

\* The columns the loop does not skip: object or datetime dtype.
DateCandidate(cells) == is_object_dtype(cells) \/ is_datetime64_any_dtype(cells)

RECURSIVE DetectDateFrom(_, _, _)
DetectDateFrom(df, threshold, i) ==
    IF i > Len(df.names) THEN NoCol
    ELSE LET col == df.names[i]
             cells == df.cols[col]
         IN  IF ~DateCandidate(cells)
             THEN DetectDateFrom(df, threshold, i + 1)
             ELSE IF RatioAtLeast(ValidCount(cells), Len(cells), threshold)
                  THEN col
                  ELSE DetectDateFrom(df, threshold, i + 1)

detect_date_column(df, threshold) == DetectDateFrom(df, threshold, 1)

RECURSIVE NumericFrom(_, _, _)
NumericFrom(df, exclude_columns, i) ==
    IF i > Len(df.names) THEN << >>
    ELSE LET col == df.names[i]
             cells == df.cols[col]
             rest == NumericFrom(df, exclude_columns, i + 1)
         IN  IF col \in exclude_columns THEN rest
             ELSE IF is_numeric_dtype(cells) THEN << col >> \o rest
             ELSE IF to_numeric_raises(cells) THEN rest
             ELSE << col >> \o rest

detect_numeric_columns(df, exclude_columns) == NumericFrom(df, exclude_columns, 1)

\* ------------------------------------------- forecasting/prophet_model.py
\* A faulty variant of RequiredColumnsMissing: "and" in place of "or".
BothColumnsMissing(df, date_col, value_col) ==
    date_col \notin Columns(df) /\ value_col \notin Columns(df)

\* if date_col not in df.columns or value_col not in df.columns
RequiredColumnsMissing(df, date_col, value_col) ==
    date_col \notin Columns(df) \/ value_col \notin Columns(df)

\* The two coerced columns, row by row, each row keeping its index label.
Coerced(df, date_col, value_col) ==
    LET vtype == Dtype(df.cols[value_col])
    IN  [i \in 1 .. NRows(df) |->
            [idx |-> i,
             ds |-> to_datetime(df.cols[date_col][i]),
             y |-> to_numeric_coerce(df.cols[value_col][i], vtype)]]

\* df.dropna(subset=[date_col, value_col])
RECURSIVE dropna(_)
dropna(rows) ==
    IF rows = << >> THEN << >>
    ELSE LET r == Head(rows)
         IN  IF r.ds = NoValue \/ r.y = NoValue
             THEN dropna(Tail(rows))
             ELSE << [idx |-> r.idx, ds |-> r.ds[1], y |-> r.y[1]] >>
                      \o dropna(Tail(rows))

Perms(n) == {p \in [1 .. n -> 1 .. n] : \A i, j \in 1 .. n : p[i] = p[j] => i = j}

IsSortedByDs(rows) ==
    \A i \in 1 .. Len(rows) - 1 : rows[i].ds <= rows[i + 1].ds

\* A faulty variant of sort_values: the rows left in their input order.
sort_values_skipped(rows) == {rows}

\* df.sort_values(by=date_col): the default kind is quicksort, which pandas
\* documents as not stable, so every ascending arrangement is a possible
\* outcome.
sort_values(rows) ==
    LET n == Len(rows)
        arranged == {[i \in 1 .. n |-> rows[p[i]]] : p \in Perms(n)}
    IN  {s \in arranged : IsSortedByDs(s)}

Raised(kind, names) == [status |-> kind, named |-> names, rows |-> << >>]

Returned(rows) == [status |-> "ok", named |-> {}, rows |-> rows]

\* The possible outcomes of prepare_data(df, date_col, value_col).
\*  - the ValueError of the column check lists the available columns;
\*  - df[col] on an absent label is a KeyError;
\*  - with date_col = value_col the rename dict {c: 'ds', c: 'y'} keeps only
\*    c -> 'y', and df[['ds', 'y']] raises KeyError for 'ds'.
prepare_data(df, date_col, value_col) ==
    IF RequiredColumnsMissing(df, date_col, value_col)
    THEN {Raised("ValueError", Columns(df))}
    ELSE IF date_col \notin Columns(df) \/ value_col \notin Columns(df)
    THEN {Raised("KeyError", {date_col, value_col} \ Columns(df))}
    ELSE IF date_col = value_col
    THEN {Raised("KeyError", {"ds"})}
    ELSE {Returned(s) : s \in sort_values(dropna(Coerced(df, date_col, value_col)))}

\* model.fit(df) raises when the history has fewer than 2 usable rows.
FitRaises(series) == Len(series) < MinFitRows

\* train_prophet_model(df): the fitted model and the forecast, both opaque
\* but for the history they were made from.
train_prophet_model(series) ==
    [model |-> [fitted_on |-> series],
     forecast |-> [history |-> series, periods |-> ForecastPeriods]]

\* ----------------------------------------------------------------- state
VARIABLES
    table,          \* the DataFrame handed to a library function called directly
    call,           \* that call: the function and its arguments
    ret,            \* what the call returned or raised
    session_state,  \* st.session_state: df, date_col, value_col, model, forecast
    pc,             \* where the current script run stands
    run_forecast,   \* the "Run Forecast" button of this run
    df_clean,       \* the script's variable df_clean (unbound until assigned)
    upload_error,   \* st.error of the upload handler was shown in this run
    forecast_error, \* st.error of the forecast handler shown in this run
    fit_input,      \* the series train_prophet_model was called with in this run
    plot,           \* the outcome of plot_forecast in this run
    suggested,      \* the column detected and the defaults of the two selectors
    first_run       \* no interaction has happened yet

callVars == <<table, call, ret>>

appVars == <<session_state, pc, run_forecast, df_clean, upload_error,
             forecast_error, fit_input, plot, suggested, first_run>>

vars == <<table, call, ret, session_state, pc, run_forecast, df_clean,
          upload_error, forecast_error, fit_input, plot, suggested, first_run>>

\* ------------------------------------------------- direct library calls
Table(names, cols) == [names |-> names, cols |-> cols]

EmptyTable == Table(<< >>, [c \in {} |-> << >>])

\* The cells a generated table is filled with.
CellValues ==
    {DateCell(t) : t \in 1 .. MaxStamp}
        \cup {DateText(1), NumCell(1), NumText(1), JunkText, Missing}

PrepareNames == <<"Date", "Sales">>

\* The column arguments tried on a generated table.
ArgNames == {"Date", "Sales", "DoesNotExist"}

\* The columns of a generated table of n rows.
PrepareColumns(n) == [{"Date", "Sales"} -> [1 .. n -> CellValues]]

DetectNames == <<"A", "B">>

\* n cells a followed by cells b, r cells in all: the detectors only count
\* cells, so a column is generated up to the order of its cells.
RunColumn(a, b, n, r) == [i \in 1 .. r |-> IF i <= n THEN a ELSE b]

DetectCells == {DateCell(1), DateText(1), NumCell(1), NumText(1), JunkText, Missing}

RunColumns(r) ==
    {RunColumn(a, b, n, r) : a \in DetectCells, b \in DetectCells, n \in 0 .. r}

\* The columns of a generated table of r rows.
DetectColumns(r) == [{"A", "B"} -> RunColumns(r)]

\* Thresholds tried, in percent.
Thresholds == {50, DefaultThreshold, 81, 100}

Excludes == {{}, {"A"}, {"B"}}

NoCall ==
    [op |-> "none", date_col |-> NoCol, value_col |-> NoCol, threshold |-> 0,
     exclude_columns |-> {}]

NoRet == [status |-> "none", named |-> {}, rows |-> << >>, col |-> NoCol, cols |-> << >>]

CallPrepare(date_col, value_col) ==
    /\ call.op = "none"
    /\ \E r \in prepare_data(table, date_col, value_col) :
          ret' = [NoRet EXCEPT !.status = r.status, !.named = r.named, !.rows = r.rows]
    /\ call' = [NoCall EXCEPT !.op = "prepare_data", !.date_col = date_col,
                              !.value_col = value_col]
    /\ UNCHANGED <<table, appVars>>

CallDetectDate(threshold) ==
    /\ call.op = "none"
    /\ ret' = [NoRet EXCEPT !.status = "ok", !.col = detect_date_column(table, threshold)]
    /\ call' = [NoCall EXCEPT !.op = "detect_date_column", !.threshold = threshold]
    /\ UNCHANGED <<table, appVars>>

CallDetectNumeric(exclude_columns) ==
    /\ call.op = "none"
    /\ ret' = [NoRet EXCEPT !.status = "ok",
                            !.cols = detect_numeric_columns(table, exclude_columns)]
    /\ call' = [NoCall EXCEPT !.op = "detect_numeric_columns",
                              !.exclude_columns = exclude_columns]
    /\ UNCHANGED <<table, appVars>>

\* ------------------------------------------------------------------ app.py
\* Lines 54-64: every key of the session state starts as None.
InitSession ==
    [df |-> NoValue, date_col |-> NoCol, value_col |-> NoCol,
     model |-> NoValue, forecast |-> NoValue]

Frame(n1, c1, n2, c2) == Table(<<n1, n2>>, (n1 :> c1) @@ (n2 :> c2))

\* generate_synthetic_cashflow(): weekly dates in ascending order, a number
\* per week.
generate_synthetic_cashflow ==
    Frame("ds", <<DateCell(1), DateCell(2)>>, "y", <<NumCell(1), NumCell(2)>>)

\* The files a user uploads.
NoFile == "<None>"

Files == {"sales.xlsx", "people.xlsx", "spans.xlsx", "weekly.xlsx",
          "blank.xlsx", "corrupt.xlsx"}

\* The first sheet of each readable file.
Sheet(file) ==
    CASE file = "sales.xlsx" ->
            Frame("Date", <<DateCell(2), DateCell(1), DateCell(1)>>,
                  "Sales", <<NumCell(1), NumCell(2), NumCell(1)>>)
      [] file = "people.xlsx" ->
            Frame("Date", <<DateCell(1), DateCell(2)>>,
                  "Name", <<JunkText, JunkText>>)
      [] file = "spans.xlsx" ->
            Frame("Start", <<DateCell(1), DateCell(2)>>,
                  "End", <<DateCell(2), DateCell(2)>>)
      [] file = "weekly.xlsx" ->
            Frame("Week", <<DateText(1), JunkText>>,
                  "Revenue", <<NumText(1), NumCell(1)>>)
      [] OTHER -> EmptyTable

\* parse_excel(file): the first sheet, or a ValueError for an unreadable file.
parse_excel(file) ==
    IF file = "corrupt.xlsx"
    THEN [ok |-> FALSE, df |-> EmptyTable]
    ELSE [ok |-> TRUE, df |-> Sheet(file)]

\* df.columns.get_loc(col), 1-based.
get_loc(names, col) == CHOOSE i \in 1 .. Len(names) : names[i] = col

\* st.selectbox(options, index): what the user has picked, None when there
\* is nothing to pick; before the user touches it, the option at index.
SelectboxValues(options) ==
    IF options = << >> THEN {NoCol} ELSE {options[i] : i \in 1 .. Len(options)}

SelectboxDefault(options, index) ==
    IF options = << >> THEN NoCol ELSE options[index]

\* Lines 97-98: the detected date column and the numeric candidates.
DetectedDate(df) == detect_date_column(df, DefaultThreshold)

NumericCols(df) ==
    detect_numeric_columns(
        df, IF DetectedDate(df) # NoCol THEN {DetectedDate(df)} ELSE {})

\* Lines 101-111: the date selector lists every column.
DateOptions(df) == df.names

DateIndex(df) ==
    IF DetectedDate(df) # NoCol THEN get_loc(df.names, DetectedDate(df)) ELSE 1

\* Lines 113-123: the value selector lists the numeric candidates, or every
\* column when there is none.
ValueOptions(df) == IF NumericCols(df) # << >> THEN NumericCols(df) ELSE df.names

\* Lines 92-126: the session state after the upload handler.  parse_excel
\* raising leaves it as it was; the detectors swallow their own exceptions
\* and the selectors return a value, so nothing else in the block raises.
UploadCommit(s, parsed, picked_date, picked_value) ==
    IF parsed.ok
    THEN [s EXCEPT !.df = Some(parsed.df), !.date_col = picked_date,
                   !.value_col = picked_value]
    ELSE s

\* Line 162, a faulty variant: the model stored although the fit raised.
ForecastCommitEarly(s, series) ==
    IF FitRaises(series)
    THEN [s EXCEPT !.model = Some(train_prophet_model(series).model)]
    ELSE [s EXCEPT !.model = Some(train_prophet_model(series).model),
                   !.forecast = Some(train_prophet_model(series).forecast)]

\* Line 162: model and forecast are assigned together, after
\* train_prophet_model has returned.
ForecastCommit(s, series) ==
    IF FitRaises(series)
    THEN s
    ELSE [s EXCEPT !.model = Some(train_prophet_model(series).model),
                   !.forecast = Some(train_prophet_model(series).forecast)]

NoSuggestion == [detected |-> NoCol, date_default |-> NoCol, value_default |-> NoCol]

Suggestion(df) ==
    [detected |-> DetectedDate(df),
     date_default |-> SelectboxDefault(DateOptions(df), DateIndex(df)),
     value_default |-> SelectboxDefault(ValueOptions(df), 1)]

\* Lines 71-82 and 129: what the widgets return.  On the first run nobody
\* has touched them: no file, the demo box ticked (value=uploaded_file is
\* None), the button not pressed.  Afterwards they hold what the user set.
WidgetValues(uploaded_file, use_demo_data, button) ==
    first_run => (uploaded_file = NoFile /\ use_demo_data /\ ~button)

\* Lines 85-88: demo data is generated when asked for and no table is held.
LoadDemo(uploaded_file, use_demo_data, button) ==
    /\ pc = "sidebar"
    /\ WidgetValues(uploaded_file, use_demo_data, button)
    /\ use_demo_data /\ session_state.df = NoValue
    /\ session_state' = [session_state EXCEPT
                            !.df = Some(generate_synthetic_cashflow),
                            !.date_col = "ds", !.value_col = "y"]
    /\ run_forecast' = button
    /\ pc' = "main"
    /\ UNCHANGED <<callVars, df_clean, upload_error, forecast_error, fit_input,
                   plot, suggested, first_run>>

\* Lines 91-126: an uploaded file is parsed, the columns are detected and
\* the two selectors are read.
Upload(uploaded_file, use_demo_data, button) ==
    /\ pc = "sidebar"
    /\ WidgetValues(uploaded_file, use_demo_data, button)
    /\ ~(use_demo_data /\ session_state.df = NoValue)
    /\ uploaded_file # NoFile
    /\ LET parsed == parse_excel(uploaded_file)
       IN  \E picked_date \in SelectboxValues(DateOptions(parsed.df)),
              picked_value \in SelectboxValues(ValueOptions(parsed.df)) :
              /\ session_state' =
                    UploadCommit(session_state, parsed, picked_date, picked_value)
              /\ upload_error' = ~parsed.ok
              /\ suggested' = IF parsed.ok THEN Suggestion(parsed.df) ELSE NoSuggestion
    /\ run_forecast' = button
    /\ pc' = "main"
    /\ UNCHANGED <<callVars, df_clean, forecast_error, fit_input, plot, first_run>>

\* Neither branch of lines 85-126 is taken.
NoInput(uploaded_file, use_demo_data, button) ==
    /\ pc = "sidebar"
    /\ WidgetValues(uploaded_file, use_demo_data, button)
    /\ ~(use_demo_data /\ session_state.df = NoValue)
    /\ uploaded_file = NoFile
    /\ run_forecast' = button
    /\ pc' = "main"
    /\ UNCHANGED <<callVars, session_state, df_clean, upload_error,
                   forecast_error, fit_input, plot, suggested, first_run>>

\* Line 151: the guard of the forecast handler.
ForecastTriggered ==
    /\ session_state.df # NoValue
    /\ run_forecast
    /\ session_state.date_col # NoCol
    /\ session_state.value_col # NoCol

\* Lines 151-168: prepare_data, then train_prophet_model; any exception is
\* caught and shown.
RunForecast ==
    /\ pc = "main"
    /\ ForecastTriggered
    /\ \E r \in prepare_data(session_state.df[1], session_state.date_col,
                             session_state.value_col) :
          IF r.status # "ok"
          THEN /\ forecast_error' = "prepare_data"
               /\ UNCHANGED <<session_state, df_clean, fit_input>>
          ELSE /\ df_clean' = Some(r.rows)
               /\ fit_input' = Some(r.rows)
               /\ session_state' = ForecastCommit(session_state, r.rows)
               /\ forecast_error' =
                     IF FitRaises(r.rows) THEN "train_prophet_model" ELSE "none"
    /\ pc' = "render"
    /\ UNCHANGED <<callVars, run_forecast, upload_error, plot, suggested, first_run>>

SkipForecast ==
    /\ pc = "main"
    /\ ~ForecastTriggered
    /\ pc' = "render"
    /\ UNCHANGED <<callVars, session_state, run_forecast, df_clean, upload_error,
                   forecast_error, fit_input, plot, suggested, first_run>>

\* Line 171: the results are shown whenever a forecast is stored.
ResultsShown == session_state.df # NoValue /\ session_state.forecast # NoValue

\* Lines 171-199: plot_forecast(model, forecast, df_clean); reading df_clean
\* when this run has not assigned it is a NameError.
Render ==
    /\ pc = "render"
    /\ plot' = IF ~ResultsShown THEN "none"
               ELSE IF df_clean = NoValue THEN "NameError"
               ELSE "plotted"
    /\ pc' = "done"
    /\ UNCHANGED <<callVars, session_state, run_forecast, df_clean, upload_error,
                   forecast_error, fit_input, suggested, first_run>>

\* The next interaction reruns the script from the top with fresh variables.
Rerun ==
    /\ pc = "done"
    /\ pc' = "sidebar"
    /\ run_forecast' = FALSE
    /\ df_clean' = NoValue
    /\ upload_error' = FALSE
    /\ forecast_error' = "none"
    /\ fit_input' = NoValue
    /\ plot' = "none"
    /\ suggested' = NoSuggestion
    /\ first_run' = FALSE
    /\ UNCHANGED <<callVars, session_state>>

\* --------------------------------------------------------- specifications
AppInit ==
    /\ session_state = InitSession
    /\ pc = "sidebar"
    /\ run_forecast = FALSE
    /\ df_clean = NoValue
    /\ upload_error = FALSE
    /\ forecast_error = "none"
    /\ fit_input = NoValue
    /\ plot = "none"
    /\ suggested = NoSuggestion
    /\ first_run = TRUE

Init == table = EmptyTable /\ call = NoCall /\ ret = NoRet /\ AppInit

Next ==
    \/ \E f \in Files \cup {NoFile}, d \in BOOLEAN, b \in BOOLEAN : LoadDemo(f, d, b)
    \/ \E f \in Files \cup {NoFile}, d \in BOOLEAN, b \in BOOLEAN : Upload(f, d, b)
    \/ \E f \in Files \cup {NoFile}, d \in BOOLEAN, b \in BOOLEAN : NoInput(f, d, b)
    \/ RunForecast
    \/ SkipForecast
    \/ Render
    \/ Rerun

\* The application: script runs, one per user interaction.
Spec == Init /\ [][Next]_vars

\* Every table of two columns and at most MaxRows rows.
InitPrepare ==
    /\ \E n \in 0 .. MaxRows :
          \E c \in PrepareColumns(n) : table = Table(PrepareNames, c)
    /\ call = NoCall
    /\ ret = NoRet
    /\ AppInit

NextPrepare == \E d \in ArgNames, v \in ArgNames : CallPrepare(d, v)

\* prepare_data called once on any generated table.
SpecPrepare == InitPrepare /\ [][NextPrepare]_vars

\* Every table of two run columns and at most DetectRows rows.
InitDetect ==
    /\ \E r \in 0 .. DetectRows :
          \E c \in DetectColumns(r) : table = Table(DetectNames, c)
    /\ call = NoCall
    /\ ret = NoRet
    /\ AppInit

NextDetect ==
    \/ \E t \in Thresholds : CallDetectDate(t)
    \/ \E e \in Excludes : CallDetectNumeric(e)

\* A detector called once on any generated table.
SpecDetect == InitDetect /\ [][NextDetect]_vars

\* ------------------------------------------------------------ properties
PrepareCalled == call.op = "prepare_data"

MissingArgs == {call.date_col, call.value_col} \ Columns(table)

\* The rows of the table whose date cell and value cell both coerce.
Survivors ==
    {i \in 1 .. NRows(table) :
        /\ to_datetime(table.cols[call.date_col][i]) # NoValue
        /\ to_numeric_coerce(table.cols[call.value_col][i],
                             Dtype(table.cols[call.value_col])) # NoValue}

RowLabels(rows) == {rows[i].idx : i \in 1 .. Len(rows)}

\* C1, as the spec states it: prepare_data called with a column the table
\* lacks fails with an error that names the missing column(s), and returns
\* no series.
C1_ErrorNamesMissingColumn ==
    (PrepareCalled /\ MissingArgs # {}) =>
        /\ ret.status = "ValueError"
        /\ MissingArgs \subseteq ret.named
        /\ ret.rows = << >>

\* C1, amended: prepare_data called with a column the table lacks fails with
\* a ValueError whose message lists the columns the table has (not the
\* missing one), and returns no series.
C1_ErrorListsAvailableColumns ==
    (PrepareCalled /\ MissingArgs # {}) =>
        /\ ret.status = "ValueError"
        /\ ret.named = Columns(table)
        /\ ret.rows = << >>

C1_Witness ==
    /\ PrepareCalled
    /\ call.date_col = "Date"
    /\ call.value_col = "DoesNotExist"
    /\ NRows(table) > 0
    /\ ret.status = "ValueError"

\* C2: for every table holding both date_col and value_col, prepare_data
\* returns without error exactly the rows whose date and value both coerce,
\* each once, in non-decreasing timestamp order, with no missing value and
\* no more rows than the input (an empty series when every row is dropped).
C2_ReturnsCleanSeries ==
    (PrepareCalled /\ MissingArgs = {}) =>
        /\ ret.status = "ok"
        /\ RowLabels(ret.rows) = Survivors
        /\ Len(ret.rows) = Cardinality(Survivors)
        /\ IsSortedByDs(ret.rows)
        /\ Len(ret.rows) <= NRows(table)

ParsedAsDate(col) ==
    {i \in 1 .. NRows(table) : table.cols[col][i].k \in {"date", "datetext", "num"}}

\* The positions of the columns that are not skipped (their representation
\* is text or date) and whose fraction of parsed cells reaches the threshold.
QualifyingPositions ==
    {p \in 1 .. Len(table.names) :
        /\ Dtype(table.cols[table.names[p]]) # "float64"
        /\ NRows(table) > 0
        /\ Cardinality(ParsedAsDate(table.names[p])) * 100
               >= call.threshold * NRows(table)}

\* C4: detect_date_column returns the first column in table order, among
\* the columns not skipped, whose fraction of cells parsing as dates is >=
\* threshold (inclusive: exactly 80% qualifies at 0.8, not at 0.81), and
\* none when no column qualifies; the result is none or a column name.
C4_FirstQualifyingColumn ==
    (call.op = "detect_date_column") =>
        /\ ret.col \in Columns(table) \cup {NoCol}
        /\ IF QualifyingPositions = {}
           THEN ret.col = NoCol
           ELSE \E p \in QualifyingPositions :
                   /\ ret.col = table.names[p]
                   /\ \A q \in QualifyingPositions : p <= q

C4_Witness ==
    /\ call.op = "detect_date_column"
    /\ call.threshold = DefaultThreshold
    /\ NRows(table) = 5
    /\ Cardinality(ParsedAsDate("A")) = 1
    /\ Cardinality(ParsedAsDate("B")) = 4
    /\ ret.col = "B"

\* A cell that is a number, a text that reads as a number, or empty.
NumericOrConvertible(cell) == cell.k \in {"num", "numtext", "missing"}

AllNumeric(col) ==
    \A i \in 1 .. NRows(table) : NumericOrConvertible(table.cols[col][i])

WantedNumeric(col) == col \notin call.exclude_columns /\ AllNumeric(col)

\* C5: detect_numeric_columns returns, in table order, exactly the columns
\* not excluded whose every cell is numeric or convertible to a number; a
\* column with one cell that is neither is never returned.
C5_ExactlyTheNumericColumns ==
    (call.op = "detect_numeric_columns") =>
        ret.cols = SelectSeq(table.names, WantedNumeric)

\* C6: the forecast adapter is never called with an empty series: a
\* forecast whose preparation leaves no row fails before train_prophet_model.
C6_NoEmptySeriesFitted == fit_input # NoValue => fit_input[1] # << >>

SelectionOf(s) ==
    s.df # NoValue =>
        /\ s.date_col \in Columns(s.df[1]) \cup {NoCol}
        /\ s.value_col \in Columns(s.df[1]) \cup {NoCol}

\* C7: a failing action commits nothing: when the upload handler or the
\* forecast handler shows an error, the session state is what it was before
\* the handler ran; model and forecast change together or not at all, and a
\* new table is stored only together with a column selection made on it.
C7_FailureCommitsNothing ==
    [][/\ (upload_error' /\ ~upload_error) => session_state' = session_state
       /\ (forecast_error' # "none" /\ forecast_error = "none")
              => session_state' = session_state
       /\ (session_state'.model # session_state.model)
              <=> (session_state'.forecast # session_state.forecast)
       /\ (session_state'.df # session_state.df) => SelectionOf(session_state')
      ]_vars

C7_Witness ==
    /\ pc = "done"
    /\ upload_error
    /\ forecast_error = "train_prophet_model"
    /\ session_state.forecast # NoValue

\* C8: whenever the forecast results are rendered, df_clean is bound in that
\* run and is the series the stored forecast was trained on.
C8_PlotGetsTrainingSeries ==
    (pc = "done" /\ ResultsShown) =>
        /\ plot = "plotted"
        /\ df_clean = Some(session_state.forecast[1].history)

\* C9: after every run, a stored forecast (and model) was produced from the
\* table now held, with the date and value columns now selected.
C9_ForecastMatchesSelection ==
    (pc = "done" /\ session_state.forecast # NoValue) =>
        /\ session_state.df # NoValue
        /\ \E r \in prepare_data(session_state.df[1], session_state.date_col,
                                 session_state.value_col) :
              /\ r.status = "ok"
              /\ session_state.forecast[1].history = r.rows
              /\ session_state.model = Some([fitted_on |-> r.rows])

\* C10: whenever a table is held, date_col and value_col are each unset or
\* a column of that table, and the value column suggested by default is
\* never the detected date column.
C10_SelectionWithinTable ==
    /\ SelectionOf(session_state)
    /\ suggested.detected # NoCol => suggested.value_default # suggested.detected

====
